---- MODULE Spec2Model ----
(***************************************************************************)
(* Model of the orchestration bus of conversation_manager.py: the message  *)
(* log kept by Orchestrator, and the lifecycle Neo intake -> Morpheus plan *)
(* -> Trinity execute (retry, escalate) -> Neo closeout driven by          *)
(* Orchestrator.run.                                                       *)
(*                                                                         *)
(* One Orchestrator object is modelled; run() may be called on it several  *)
(* times, one call after the other, each call appending to the same log.   *)
(* The task action of Trinity.execute is the raise at lines 197-198; which *)
(* (task, attempt) pairs raise is an input of the run (faults), the        *)
(* repository's own choice being DemoFaults.                               *)
(***************************************************************************)
EXTENDS Integers, Sequences, FiniteSets, TLC

\* ------------------------------------------------------------------ bounds
MaxRuns == 1
MaxClock == 3
TicksPerSecond == 2
MaxPush == 3
MaxCalls == 2
MaxLedgerCalls == 4
MaxCmdLen == 5
MaxConversationCalls == 3

\* --------------------------------------------------------------- constants
None == 0

MAX_ATTEMPTS == 2

Plan ==
    << [task_id |-> "task-1", description |-> "Gather matrix intel"],
       [task_id |-> "task-2", description |-> "Secure extraction route"] >>

Requests == {"Retrieve the keymaker"}

Runs == 1..MaxRuns
TaskIndex == 1..Len(Plan)
Attempts == 1..MAX_ATTEMPTS

DemoFaults == {<<2, 1>>}

VARIABLES
    log,        \* Orchestrator.log: the dict, as the sequence of its values in insertion order
    nextId,     \* the ULID source: the number of ids handed out so far
    clock,      \* the UTC clock, in ticks
    pc,         \* pc[r]: where call r of run() stands
    request,    \* request[r]: the argument of call r
    faults,     \* faults[r]: the (task index, attempt) pairs whose action raises in call r
    intake_msg, \* run(): intake_msg.response_id
    plan_msg,   \* run(): plan_msg.response_id (plan_id in execute)
    prev_id,    \* execute(): prev_id
    index,      \* execute(): index of the for loop
    attempt,    \* execute(): attempt
    results,    \* execute(): results
    exc,        \* the exception propagating out of execute(), or <<>>
    issued      \* history: issued[r] is the sequence of ids new_message returned to call r

runVars == <<log, nextId, clock, pc, request, faults, intake_msg, plan_msg,
             prev_id, index, attempt, results, exc, issued>>

\* The other programs of the repository that the bus is made of: the callers
\* of the log (record, save_log), task_queue.py, session_manager.py and the
\* dispatch loop of morpheus.py. Each has its own specification below; a
\* step of one leaves the variables of the others as they are.
VARIABLES
    exported,   \* history: what each save_log wrote since the last record
    ncalls,     \* the number of record and save_log calls made on the log from outside run
    rlist,      \* the Redis list "task_queue", leftmost element first
    pushed,     \* history: the tasks given to TaskQueue.push, in order
    popped,     \* history: the tasks TaskQueue.pop returned, in order
    lastPop,    \* history: what the last TaskQueue.pop by a client of the queue returned
    store,      \* the Redis strings "session:<id>" (Absent: no such key)
    agents,     \* Morpheus.agents: the names registered
    dpc,        \* dpc[c]: where call c of handle_message stands
    dsid,       \* handle_message: session_id
    dmsg,       \* handle_message: message
    dtask,      \* handle_message: task
    dres,       \* handle_message: res
    dresult,    \* handle_message: result
    dhist,      \* SessionManager.append: history
    dpop,       \* history: dpop[c] is the position in popped of the task call c holds
    invoked,    \* history: the positions in popped of the tasks agent.handle was called for
    appended,   \* history: appended[sid] is the entries given to append(sid, _), in the order the sets took effect
    owner       \* history: owner[k] is the call whose message the k-th entry handle_message pushed descends from

ledgerVars == <<exported, ncalls>>
queueVars == <<rlist, pushed, popped, lastPop>>
dispatchVars == <<store, agents, dpc, dsid, dmsg, dtask, dres, dresult, dhist,
                  dpop, invoked, appended, owner>>

\* TrinityAgent.handle of morpheus.py called on its own.
VARIABLES
    tpc,        \* "call" before TrinityAgent.handle is called, "done" after
    tpayload,   \* the payload of the call
    tres,       \* what the call returned or raised
    texec       \* the programs the shell started for the call, in order

trinityVars == <<tpc, tpayload, tres, texec>>

\* TEST_1/orchestrator.py: one Orchestrator, the thread that calls start and
\* the thread that calls approve.
VARIABLES
    state,            \* Orchestrator.state
    oagents,          \* Orchestrator.agents: the names registered
    olog,             \* Orchestrator.log
    current_step,     \* Orchestrator.current_step
    plan_steps,       \* Orchestrator.plan_steps, with each task's result
    use_openai,       \* Orchestrator.use_openai
    approval_event,   \* Orchestrator._approval_event: TRUE when set
    approval_result,  \* Orchestrator._approval_result
    opc,              \* where the call of start stands
    approve_calls,    \* history: the number of calls of approve
    executed          \* history: the steps whose agent was invoked, in order

orchVars == <<state, oagents, olog, current_step, plan_steps, use_openai,
              approval_event, approval_result, opc, approve_calls, executed>>

\* multi_agent_conversation.py: one ConversationManager.
VARIABLES
    messages,           \* ConversationManager.messages
    last_response_ids,  \* ConversationManager.last_response_ids; None: no such key
    posted,             \* history: the payloads given to requests.post, in order
    ccalls              \* history: the number of send and handoff calls made

conversationVars == <<messages, last_response_ids, posted, ccalls>>
extVars == <<trinityVars, orchVars, conversationVars>>
busVars == <<ledgerVars, queueVars, dispatchVars, extVars>>

vars == <<log, nextId, clock, pc, request, faults, intake_msg, plan_msg,
          prev_id, index, attempt, results, exc, issued, busVars>>

\* ------------------------------------------------------- utility functions
new_id(n) == n + 1

\* Faulty variant of utc_now: the ticks within the second instead of the seconds.
utc_now_WithinSecond(c) == c % TicksPerSecond

utc_now(c) == c \div TicksPerSecond

Message(response_id, prev_response_id, parent_id, step_id, agent, timestamp, payload) ==
    [response_id |-> response_id,
     prev_response_id |-> prev_response_id,
     parent_id |-> parent_id,
     step_id |-> step_id,
     agent |-> agent,
     timestamp |-> timestamp,
     payload |-> payload]

\* self.log[message.response_id] = message.to_dict(): a new key is appended,
\* an existing key keeps its place and gets the new value.
record(lg, message) ==
    IF \E i \in 1..Len(lg) : lg[i].response_id = message.response_id
    THEN [i \in 1..Len(lg) |->
            IF lg[i].response_id = message.response_id THEN message ELSE lg[i]]
    ELSE Append(lg, message)

\* Orchestrator.new_message for call r: a fresh id, the time of the call, record.
new_message(r, agent, step_id, payload, prev_response_id, parent_id) ==
    LET msg == Message(new_id(nextId), prev_response_id, parent_id, step_id,
                       agent, utc_now(clock), payload)
    IN  /\ log' = record(log, msg)
        /\ nextId' = msg.response_id
        /\ issued' = [issued EXCEPT ![r] = Append(@, msg.response_id)]

step_exec(i) == <<"trinity.exec", i, "">>
step_retry(i) == <<"trinity.exec", i, "retry">>
step_escalate(i) == <<"trinity.exec", i, "escalate">>

ActionRaises(r, i, a) == <<i, a>> \in faults[r]

\* ------------------------------------------- task_queue.py, session_manager.py
\* A Python Optional: <<>> is None, <<x>> is x.
Nothing == <<>>
Some(x) == <<x>>

\* json.dumps and json.loads: the text of a value, and the value of a text.
json_dumps(x) == <<"json", x>>
json_loads(t) == t[2]

\* Redis LPUSH, RPOP and BRPOP on a list whose leftmost element is the first;
\* RPOP of an empty list is nil, BRPOP that times out is nil, and BRPOP
\* answers with the key and the element.
lpush(l, x) == <<x>> \o l
rpop_item(l) == IF l = <<>> THEN Nothing ELSE Some(l[Len(l)])
\* Faulty variant of rpop_rest: the item is read and left in the list.
rpop_rest_Keeps(l) == l

rpop_rest(l) == IF l = <<>> THEN l ELSE SubSeq(l, 1, Len(l) - 1)
brpop_item(key, l) == IF l = <<>> THEN Nothing ELSE Some(<<key, l[Len(l)]>>)

QueueKey == "task_queue"

\* Faulty variant of TaskQueue_push: RPUSH for LPUSH.
TaskQueue_push_Right(l, task) == Append(l, json_dumps(task))

\* TaskQueue.push (lines 12-13): the list after the push.
TaskQueue_push(l, task) == lpush(l, json_dumps(task))

\* TaskQueue.pop (lines 15-22): what it returns, and the list it leaves.
TaskQueue_pop(l, timeout) ==
    IF timeout # 0
    THEN LET item == brpop_item(QueueKey, l)
         IN  [task |-> IF item # Nothing THEN Some(json_loads(item[1][2])) ELSE Nothing,
              rest |-> rpop_rest(l)]
    ELSE LET item == rpop_item(l)
         IN  [task |-> IF item # Nothing THEN Some(json_loads(item[1])) ELSE Nothing,
              rest |-> rpop_rest(l)]

\* Message texts, as the sequences of their characters.
Texts == {<<"L", "i", "s", "t">>, <<"h", "e", "l", "l", "o">>}
SessionIds == {"demo", "other"}
Timeouts == {0, 1}
Calls == 1..MaxCalls

\* The tasks a client of the queue pushes.
QTasks ==
    {[agent |-> "Neo", session_id |-> sid, payload |-> [text |-> t]] :
        sid \in SessionIds, t \in Texts}

\* Morpheus.agents as the repository sets it (morpheus.py line 36).
DemoAgents == {"Neo", "Trinity"}

\* No such key in Redis.
Absent == <<"nil">>

\* --------------------------------------------------------------------- Init
\* Orchestrator.agents as __init__ sets it (TEST_1/orchestrator.py lines 20-25).
OrchestratorAgents == {"social_media", "aws", "ceo", "codex"}

\* Orchestrator(use_openai) after __init__, with the registry given.
InitOrchestrator(registry, openai) ==
    /\ state = "IDLE"
    /\ oagents = registry
    /\ olog = <<>>
    /\ current_step = 0
    /\ plan_steps = <<>>
    /\ use_openai = openai
    /\ approval_event = FALSE
    /\ approval_result = Nothing
    /\ opc = "idle"
    /\ approve_calls = 0
    /\ executed = <<>>

\* The agents that take part in a conversation (multi_agent_conversation.py
\* lines 190-192).
ConversationAgents == {"Neo", "Trinity"}

\* ConversationManager(model) after __init__.
InitConversation ==
    /\ messages = <<>>
    /\ last_response_ids = [a \in ConversationAgents |-> None]
    /\ posted = <<>>
    /\ ccalls = 0

\* No call of TrinityAgent.handle is to be made.
NoPayload == [none |-> TRUE]

InitTrinity(payload) ==
    /\ tpc = IF payload = NoPayload THEN "done" ELSE "call"
    /\ tpayload = payload
    /\ tres = Nothing
    /\ texec = <<>>

InitBase(runs, registry) ==
    /\ log = <<>>
    /\ nextId = 0
    /\ clock = 0
    /\ pc = [r \in runs |-> "idle"]
    /\ request = [r \in runs |-> ""]
    /\ faults = [r \in runs |-> {}]
    /\ intake_msg = [r \in runs |-> None]
    /\ plan_msg = [r \in runs |-> None]
    /\ prev_id = [r \in runs |-> None]
    /\ index = [r \in runs |-> 0]
    /\ attempt = [r \in runs |-> 0]
    /\ results = [r \in runs |-> <<>>]
    /\ exc = [r \in runs |-> <<>>]
    /\ issued = [r \in runs |-> <<>>]
    /\ exported = Nothing
    /\ ncalls = 0
    /\ rlist = <<>>
    /\ pushed = <<>>
    /\ popped = <<>>
    /\ lastPop = Nothing
    /\ store = [sid \in SessionIds |-> Absent]
    /\ agents = registry
    /\ dpc = [c \in Calls |-> "idle"]
    /\ dsid = [c \in Calls |-> ""]
    /\ dmsg = [c \in Calls |-> <<>>]
    /\ dtask = [c \in Calls |-> Nothing]
    /\ dres = [c \in Calls |-> Nothing]
    /\ dresult = [c \in Calls |-> Nothing]
    /\ dhist = [c \in Calls |-> <<>>]
    /\ dpop = [c \in Calls |-> 0]
    /\ invoked = <<>>
    /\ appended = [sid \in SessionIds |-> <<>>]
    /\ owner = <<>>

\* The programs of the repository after construction; runs are the calls of
\* run to be made, payload the call of TrinityAgent.handle to be made.
InitOf(runs, registry, payload) ==
    /\ InitBase(runs, registry)
    /\ InitTrinity(payload)
    /\ InitOrchestrator(OrchestratorAgents, FALSE)
    /\ InitConversation

InitWith(registry) == InitOf(Runs, registry, NoPayload)

\* Morpheus() as the repository constructs it.
Init == InitWith(DemoAgents)

\* Deployments whose registry lacks the agent Neo delegates to.
Registries == {DemoAgents, {"Neo"}}

InitRegistry == \E registry \in Registries : InitWith(registry)

\* Two calls of run on one Orchestrator, each on a thread of its own.
TwoRuns == {1, 2}

InitConcurrent == InitOf(TwoRuns, DemoAgents, NoPayload)

\* ------------------------------------------------------------------ actions
\* Time passes between any two steps; the clock never steps back.
Tick ==
    /\ clock < MaxClock
    /\ clock' = clock + 1
    /\ UNCHANGED <<busVars, log, nextId, pc, request, faults, intake_msg, plan_msg,
                   prev_id, index, attempt, results, exc, issued>>

\* run(request) is called (lines 89-95): neo.intake records the root message.
NeoIntakeOf(r, mayStart, faultSets) ==
    /\ pc[r] = "idle"
    /\ mayStart
    /\ \E req \in Requests, f \in faultSets :
        /\ request' = [request EXCEPT ![r] = req]
        /\ faults' = [faults EXCEPT ![r] = f]
        /\ new_message(r, "Neo", <<"neo.intake", 1, "">>, [request |-> req], None, None)
    /\ intake_msg' = [intake_msg EXCEPT ![r] = new_id(nextId)]
    /\ pc' = [pc EXCEPT ![r] = "plan"]
    /\ UNCHANGED <<busVars, clock, plan_msg, prev_id, index, attempt, results, exc>>

\* Calls of run follow one another: a call starts when the calls before it
\* have returned. Any set of (task, attempt) pairs may raise.
NeoIntake(r) ==
    NeoIntakeOf(r, \A q \in Runs : q < r => pc[q] = "done", SUBSET (TaskIndex \X Attempts))

\* The fault sets of concurrent calls: the one the code has, and task-1
\* raising on both attempts.
ConcurrentFaults == {DemoFaults, {<<1, 1>>, <<1, 2>>}}

\* Calls of run on threads of their own start whenever they like, in the
\* order of their numbers.
NeoIntakeConcurrent(r) ==
    NeoIntakeOf(r, \A q \in TwoRuns : q < r => pc[q] # "idle", ConcurrentFaults)

\* Faulty variant of MorpheusPlan: the plan follows the newest message of the log.
MorpheusPlan_FollowsNewest(r) ==
    /\ pc[r] = "plan"
    /\ new_message(r, "Morpheus", <<"morpheus.plan", 1, "">>,
                   [plan |-> Plan, original_request |-> request[r]],
                   log[Len(log)].response_id, log[Len(log)].response_id)
    /\ plan_msg' = [plan_msg EXCEPT ![r] = new_id(nextId)]
    /\ prev_id' = [prev_id EXCEPT ![r] = new_id(nextId)]
    /\ results' = [results EXCEPT ![r] = <<>>]
    /\ index' = [index EXCEPT ![r] = 0]
    /\ pc' = [pc EXCEPT ![r] = "for"]
    /\ UNCHANGED <<busVars, clock, request, faults, intake_msg, attempt, exc>>

\* Faulty variant of MorpheusPlan: the plan message is not linked to the intake.
MorpheusPlan_Unlinked(r) ==
    /\ pc[r] = "plan"
    /\ new_message(r, "Morpheus", <<"morpheus.plan", 1, "">>,
                   [plan |-> Plan, original_request |-> request[r]],
                   None, intake_msg[r])
    /\ plan_msg' = [plan_msg EXCEPT ![r] = new_id(nextId)]
    /\ prev_id' = [prev_id EXCEPT ![r] = new_id(nextId)]
    /\ results' = [results EXCEPT ![r] = <<>>]
    /\ index' = [index EXCEPT ![r] = 0]
    /\ pc' = [pc EXCEPT ![r] = "for"]
    /\ UNCHANGED <<busVars, clock, request, faults, intake_msg, attempt, exc>>

\* morpheus.plan(request, intake_msg.response_id) (line 96, lines 156-176),
\* then the first three lines of trinity.execute (187-189).
MorpheusPlan(r) ==
    /\ pc[r] = "plan"
    /\ new_message(r, "Morpheus", <<"morpheus.plan", 1, "">>,
                   [plan |-> Plan, original_request |-> request[r]],
                   intake_msg[r], intake_msg[r])
    /\ plan_msg' = [plan_msg EXCEPT ![r] = new_id(nextId)]
    /\ prev_id' = [prev_id EXCEPT ![r] = new_id(nextId)]
    /\ results' = [results EXCEPT ![r] = <<>>]
    /\ index' = [index EXCEPT ![r] = 0]
    /\ pc' = [pc EXCEPT ![r] = "for"]
    /\ UNCHANGED <<busVars, clock, request, faults, intake_msg, attempt, exc>>

\* for index, task in enumerate(plan_msg.payload["plan"], 1) (lines 191-193):
\* the next task is taken with attempt = 0, or the loop ends and execute
\* returns (results, prev_id) (line 247).
ForNext(r) ==
    /\ pc[r] = "for"
    /\ index' = [index EXCEPT ![r] = @ + 1]
    /\ IF index[r] + 1 \in TaskIndex
       THEN /\ attempt' = [attempt EXCEPT ![r] = 0]
            /\ pc' = [pc EXCEPT ![r] = "while"]
       ELSE /\ attempt' = attempt
            /\ pc' = [pc EXCEPT ![r] = "return"]
    /\ UNCHANGED <<busVars, log, nextId, clock, request, faults, intake_msg, plan_msg,
                   prev_id, results, exc, issued>>

\* Faulty variant of TrySucceed: parent_id is the previous message, as in closeout.
TrySucceed_ParentIsPrev(r) ==
    /\ pc[r] = "while"
    /\ ~ActionRaises(r, index[r], attempt[r] + 1)
    /\ LET a == attempt[r] + 1
           task == Plan[index[r]]
           payload == [task_id |-> task.task_id,
                       status |-> "succeeded",
                       output |-> <<"completed", task.description>>,
                       attempt |-> a]
       IN  /\ attempt' = [attempt EXCEPT ![r] = a]
           /\ new_message(r, "Trinity",
                          IF a = 1 THEN step_exec(index[r]) ELSE step_retry(index[r]),
                          payload, prev_id[r], prev_id[r])
           /\ results' = [results EXCEPT ![r] = Append(@, payload)]
    /\ prev_id' = [prev_id EXCEPT ![r] = new_id(nextId)]
    /\ pc' = [pc EXCEPT ![r] = "for"]
    /\ UNCHANGED <<busVars, clock, request, faults, intake_msg, plan_msg, index, exc>>

\* Faulty variant of TrySucceed: the while loop is not left.
TrySucceed_NoBreak(r) ==
    /\ pc[r] = "while"
    /\ ~ActionRaises(r, index[r], attempt[r] + 1)
    /\ LET a == attempt[r] + 1
           task == Plan[index[r]]
           payload == [task_id |-> task.task_id,
                       status |-> "succeeded",
                       output |-> <<"completed", task.description>>,
                       attempt |-> a]
       IN  /\ attempt' = [attempt EXCEPT ![r] = a]
           /\ new_message(r, "Trinity",
                          IF a = 1 THEN step_exec(index[r]) ELSE step_retry(index[r]),
                          payload, prev_id[r], plan_msg[r])
           /\ results' = [results EXCEPT ![r] = Append(@, payload)]
    /\ prev_id' = [prev_id EXCEPT ![r] = new_id(nextId)]
    /\ pc' = [pc EXCEPT ![r] = "while"]
    /\ UNCHANGED <<busVars, clock, request, faults, intake_msg, plan_msg, index, exc>>

\* Faulty variant of TrySucceed: the newest result is put first.
TrySucceed_NewestFirst(r) ==
    /\ pc[r] = "while"
    /\ ~ActionRaises(r, index[r], attempt[r] + 1)
    /\ LET a == attempt[r] + 1
           task == Plan[index[r]]
           payload == [task_id |-> task.task_id,
                       status |-> "succeeded",
                       output |-> <<"completed", task.description>>,
                       attempt |-> a]
       IN  /\ attempt' = [attempt EXCEPT ![r] = a]
           /\ new_message(r, "Trinity",
                          IF a = 1 THEN step_exec(index[r]) ELSE step_retry(index[r]),
                          payload, prev_id[r], plan_msg[r])
           /\ results' = [results EXCEPT ![r] = <<payload>> \o @]
    /\ prev_id' = [prev_id EXCEPT ![r] = new_id(nextId)]
    /\ pc' = [pc EXCEPT ![r] = "for"]
    /\ UNCHANGED <<busVars, clock, request, faults, intake_msg, plan_msg, index, exc>>

\* One attempt whose action returns (lines 195-215): the succeeded message is
\* recorded, its payload appended to results, and the while loop is left.
TrySucceed(r) ==
    /\ pc[r] = "while"
    /\ ~ActionRaises(r, index[r], attempt[r] + 1)
    /\ LET a == attempt[r] + 1
           task == Plan[index[r]]
           payload == [task_id |-> task.task_id,
                       status |-> "succeeded",
                       output |-> <<"completed", task.description>>,
                       attempt |-> a]
       IN  /\ attempt' = [attempt EXCEPT ![r] = a]
           /\ new_message(r, "Trinity",
                          IF a = 1 THEN step_exec(index[r]) ELSE step_retry(index[r]),
                          payload, prev_id[r], plan_msg[r])
           /\ results' = [results EXCEPT ![r] = Append(@, payload)]
    /\ prev_id' = [prev_id EXCEPT ![r] = new_id(nextId)]
    /\ pc' = [pc EXCEPT ![r] = "for"]
    /\ UNCHANGED <<busVars, clock, request, faults, intake_msg, plan_msg, index, exc>>

\* One attempt whose action raises (lines 195-198): control enters the
\* except clause with the exception.
TryRaise(r) ==
    /\ pc[r] = "while"
    /\ ActionRaises(r, index[r], attempt[r] + 1)
    /\ attempt' = [attempt EXCEPT ![r] = @ + 1]
    /\ exc' = [exc EXCEPT ![r] = <<"temporary failure">>]
    /\ pc' = [pc EXCEPT ![r] = "except"]
    /\ UNCHANGED <<busVars, log, nextId, clock, request, faults, intake_msg, plan_msg,
                   prev_id, index, results, issued>>

\* Faulty variant of TrinityExcept: prev_id is not moved to the failed message.
TrinityExcept_KeepsPrev(r) ==
    /\ pc[r] = "except"
    /\ new_message(r, "Trinity", step_exec(index[r]),
                   [task_id |-> Plan[index[r]].task_id,
                    status |-> "failed",
                    error |-> exc[r],
                    attempt |-> attempt[r]],
                   prev_id[r], plan_msg[r])
    /\ exc' = [exc EXCEPT ![r] = <<>>]
    /\ pc' = [pc EXCEPT ![r] = IF attempt[r] >= MAX_ATTEMPTS THEN "escalate" ELSE "while"]
    /\ UNCHANGED <<busVars, clock, request, faults, intake_msg, plan_msg, prev_id, index,
                   attempt, results>>

\* The except clause (lines 216-231) with the test of line 231 as a parameter.
TrinityExceptWith(r, exhausted) ==
    /\ pc[r] = "except"
    /\ new_message(r, "Trinity", step_exec(index[r]),
                   [task_id |-> Plan[index[r]].task_id,
                    status |-> "failed",
                    error |-> exc[r],
                    attempt |-> attempt[r]],
                   prev_id[r], plan_msg[r])
    /\ prev_id' = [prev_id EXCEPT ![r] = new_id(nextId)]
    /\ exc' = [exc EXCEPT ![r] = <<>>]
    /\ pc' = [pc EXCEPT ![r] = IF exhausted THEN "escalate" ELSE "while"]
    /\ UNCHANGED <<busVars, clock, request, faults, intake_msg, plan_msg, index, attempt, results>>

\* Faulty variant of TrinityExcept: attempt > 2 for attempt >= 2.
TrinityExcept_OneMoreAttempt(r) == TrinityExceptWith(r, attempt[r] > MAX_ATTEMPTS)

\* Faulty variant of TrinityExcept: escalates on the first failure.
TrinityExcept_NoRetry(r) == TrinityExceptWith(r, attempt[r] >= 1)

\* The retry path (lines 216-231): the failed message is recorded and becomes
\* prev_id; below the attempt limit the while loop goes round again.
TrinityExcept(r) == TrinityExceptWith(r, attempt[r] >= MAX_ATTEMPTS)

\* Faulty variant of TrinityEscalate: the escalated message is recorded but nothing
\* is raised; the for loop goes on.
TrinityEscalate_Continues(r) ==
    /\ pc[r] = "escalate"
    /\ new_message(r, "Trinity", step_escalate(index[r]),
                   [task_id |-> Plan[index[r]].task_id,
                    status |-> "escalated",
                    reason |-> "retries exhausted"],
                   prev_id[r], plan_msg[r])
    /\ pc' = [pc EXCEPT ![r] = "for"]
    /\ UNCHANGED <<busVars, clock, request, faults, intake_msg, plan_msg, prev_id, index,
                   attempt, results, exc>>

\* Faulty variant of TrinityEscalate: RuntimeError is raised before the escalated
\* message is recorded.
TrinityEscalate_RaisesFirst(r) ==
    /\ pc[r] = "escalate"
    /\ exc' = [exc EXCEPT ![r] = <<"Task", Plan[index[r]].task_id, "escalation required">>]
    /\ pc' = [pc EXCEPT ![r] = "raised"]
    /\ UNCHANGED <<busVars, log, nextId, clock, request, faults, intake_msg, plan_msg, prev_id,
                   index, attempt, results, issued>>

\* Retries exhausted (lines 232-246): the escalated message is recorded, then
\* RuntimeError leaves execute.
TrinityEscalate(r) ==
    /\ pc[r] = "escalate"
    /\ new_message(r, "Trinity", step_escalate(index[r]),
                   [task_id |-> Plan[index[r]].task_id,
                    status |-> "escalated",
                    reason |-> "retries exhausted"],
                   prev_id[r], plan_msg[r])
    /\ exc' = [exc EXCEPT ![r] = <<"Task", Plan[index[r]].task_id, "escalation required">>]
    /\ pc' = [pc EXCEPT ![r] = "raised"]
    /\ UNCHANGED <<busVars, clock, request, faults, intake_msg, plan_msg, prev_id, index,
                   attempt, results>>

\* Faulty variant of RunEscalation: the handler returns the log without a closeout.
RunEscalation_NoCloseout(r) ==
    /\ pc[r] = "raised"
    /\ exc' = [exc EXCEPT ![r] = <<>>]
    /\ pc' = [pc EXCEPT ![r] = "done"]
    /\ UNCHANGED <<busVars, log, nextId, clock, request, faults, intake_msg, plan_msg,
                   prev_id, index, attempt, results, issued>>

\* The escalation path of run (lines 100-109): the failed closeout, linked to
\* the plan message, and run returns the log.
RunEscalation(r) ==
    /\ pc[r] = "raised"
    /\ new_message(r, "Neo", <<"neo.closeout", 1, "">>,
                   [error |-> exc[r], status |-> "failed"],
                   plan_msg[r], plan_msg[r])
    /\ exc' = [exc EXCEPT ![r] = <<>>]
    /\ pc' = [pc EXCEPT ![r] = "done"]
    /\ UNCHANGED <<busVars, clock, request, faults, intake_msg, plan_msg, prev_id, index,
                   attempt, results>>

\* neo.closeout(last_id, results) (line 111, lines 137-147), and run returns
\* the log.
NeoCloseout(r) ==
    /\ pc[r] = "return"
    /\ new_message(r, "Neo", <<"neo.closeout", 1, "">>,
                   [results |-> results[r], status |-> "complete"],
                   prev_id[r], prev_id[r])
    /\ pc' = [pc EXCEPT ![r] = "done"]
    /\ UNCHANGED <<busVars, clock, request, faults, intake_msg, plan_msg, prev_id, index,
                   attempt, results, exc>>

Next ==
    \/ Tick
    \/ \E r \in Runs : NeoIntake(r)
    \/ \E r \in Runs : MorpheusPlan(r)
    \/ \E r \in Runs : ForNext(r)
    \/ \E r \in Runs : TrySucceed(r)
    \/ \E r \in Runs : TryRaise(r)
    \/ \E r \in Runs : TrinityExcept(r)
    \/ \E r \in Runs : TrinityEscalate(r)
    \/ \E r \in Runs : RunEscalation(r)
    \/ \E r \in Runs : NeoCloseout(r)

Spec == Init /\ [][Next]_vars

\* Two calls of run at the same time on the one log: a thread may be
\* preempted between any two of its new_message calls.
NextConcurrent ==
    \/ Tick
    \/ \E r \in TwoRuns : NeoIntakeConcurrent(r)
    \/ \E r \in TwoRuns : MorpheusPlan(r)
    \/ \E r \in TwoRuns : ForNext(r)
    \/ \E r \in TwoRuns : TrySucceed(r)
    \/ \E r \in TwoRuns : TryRaise(r)
    \/ \E r \in TwoRuns : TrinityExcept(r)
    \/ \E r \in TwoRuns : TrinityEscalate(r)
    \/ \E r \in TwoRuns : RunEscalation(r)
    \/ \E r \in TwoRuns : NeoCloseout(r)

SpecConcurrent == InitConcurrent /\ [][NextConcurrent]_vars

\* ------------------------------------------------------ clients of TaskQueue
\* A client calls push(task).
QPush(task) ==
    /\ Len(pushed) < MaxPush
    /\ rlist' = TaskQueue_push(rlist, task)
    /\ pushed' = Append(pushed, task)
    /\ UNCHANGED <<popped, lastPop, runVars, ledgerVars, dispatchVars, extVars>>

\* A client calls pop(timeout) and gets its answer: with a timeout and an
\* empty list this is the step at which the timeout has run out.
QPop(timeout) ==
    /\ LET got == TaskQueue_pop(rlist, timeout)
       IN  /\ rlist' = got.rest
           /\ lastPop' = got.task
           /\ popped' = IF got.task = Nothing THEN popped ELSE Append(popped, got.task[1])
    /\ UNCHANGED <<pushed, runVars, ledgerVars, dispatchVars, extVars>>

NextQueue ==
    \/ \E task \in QTasks : QPush(task)
    \/ \E timeout \in Timeouts : QPop(timeout)

SpecQueue == Init /\ [][NextQueue]_vars

\* ---------------------------------------------------------------------------
\* The log used directly: record and save_log called by a client of Orchestrator
\* ---------------------------------------------------------------------------

\* Messages a client builds itself and hands to record: the id may be one that
\* is already a key of the log, prev_response_id and parent_id may name a
\* message that was never recorded.
ClientIds == {1, 2}
ClientRefs == {None, 1, 2}
ClientMessages ==
    {Message(id, prev, parent, <<"client.step", 0, "">>, "Client", utc_now(clock),
             [status |-> st]) :
        id \in ClientIds, prev \in ClientRefs, parent \in {None, 1},
        st \in {"success", "failed"}}

\* Faulty variant of save_log: the newest message is written first.
save_log_NewestFirst(lg) ==
    [i \in 1..Len(lg) |-> <<lg[Len(lg) + 1 - i].response_id, lg[Len(lg) + 1 - i]>>]

\* json.dump(self.log, fh, indent=2): one member per key of the dict, in the
\* order of the dict, the key followed by the stored message.
save_log(lg) == [i \in 1..Len(lg) |-> <<lg[i].response_id, lg[i]>>]

\* orch.record(message) called by a client.
Record(message) ==
    /\ ncalls < MaxLedgerCalls
    /\ ncalls' = ncalls + 1
    /\ log' = record(log, message)
    /\ exported' = <<>>
    /\ UNCHANGED <<nextId, clock, pc, request, faults, intake_msg, plan_msg, prev_id,
                   index, attempt, results, exc, issued, queueVars, dispatchVars, extVars>>

\* Faulty variant of SaveLog: writing the log empties it.
SaveLog_Consumes ==
    /\ ncalls < MaxLedgerCalls
    /\ ncalls' = ncalls + 1
    /\ exported' = Append(exported, save_log(log))
    /\ log' = <<>>
    /\ UNCHANGED <<nextId, clock, pc, request, faults, intake_msg, plan_msg, prev_id,
                   index, attempt, results, exc, issued, queueVars, dispatchVars, extVars>>

\* orch.save_log(path) called by a client; exported keeps what was written by
\* each call since the last record.
SaveLog ==
    /\ ncalls < MaxLedgerCalls
    /\ ncalls' = ncalls + 1
    /\ exported' = Append(exported, save_log(log))
    /\ UNCHANGED <<runVars, queueVars, dispatchVars, extVars>>

NextLedger ==
    \/ \E message \in ClientMessages : Record(message)
    \/ SaveLog

SpecLedger == Init /\ [][NextLedger]_vars

\* ---------------------------------------------------------------------------
\* morpheus.py: the agents, the session store and the dispatch loop
\* ---------------------------------------------------------------------------

Upper == <<"A", "B", "C", "D", "E", "F", "G", "H", "I", "J", "K", "L", "M",
           "N", "O", "P", "Q", "R", "S", "T", "U", "V", "W", "X", "Y", "Z">>
Lower == <<"a", "b", "c", "d", "e", "f", "g", "h", "i", "j", "k", "l", "m",
           "n", "o", "p", "q", "r", "s", "t", "u", "v", "w", "x", "y", "z">>

\* str.lower()
lower(text) ==
    [i \in 1..Len(text) |->
        IF \E k \in 1..Len(Upper) : Upper[k] = text[i]
        THEN Lower[CHOOSE k \in 1..Len(Upper) : Upper[k] = text[i]]
        ELSE text[i]]

\* word in text
contains(word, text) ==
    \E i \in 0..(Len(text) - Len(word)) : SubSeq(text, i + 1, i + Len(word)) = word

\* str.split(): the maximal runs of characters other than white space.
RECURSIVE split_from(_, _, _)
split_from(text, i, word) ==
    IF i > Len(text)
    THEN IF word = <<>> THEN <<>> ELSE <<word>>
    ELSE IF text[i] = " "
         THEN IF word = <<>>
              THEN split_from(text, i + 1, <<>>)
              ELSE <<word>> \o split_from(text, i + 1, <<>>)
         ELSE split_from(text, i + 1, Append(word, text[i]))

split(text) == split_from(text, 1, <<>>)

\* An exception leaving agent.handle.
Raised(name) == [raised |-> name]
IsRaised(res) == "raised" \in DOMAIN res

\* NeoAgent.handle(payload, session)
NeoAgent_handle(payload) ==
    LET text == IF "text" \in DOMAIN payload THEN payload.text ELSE <<>> IN
    IF \/ contains(<<"l", "i", "s", "t">>, lower(text))
       \/ contains(<<"d", "i", "r", "e", "c", "t", "o", "r", "y">>, lower(text))
    THEN [delegate |-> "Trinity", command |-> <<"l", "s">>]
    ELSE [response |-> "I only know how to list directories for now."]

ALLOW == {<<"l", "s">>}

\* What the shell prints for an allowed command, stripped.
Stdouts == {"README.md"}

\* TrinityAgent.handle(payload, session); stdout is what subprocess.run captures.
TrinityAgent_handle(payload, stdout) ==
    LET cmd == IF "command" \in DOMAIN payload THEN payload.command ELSE <<>> IN
    IF split(cmd) = <<>>
    THEN Raised("IndexError")
    ELSE IF split(cmd)[1] \notin ALLOW
         THEN [status |-> "error", output |-> "Command not allowed."]
         ELSE [status |-> "success", output |-> stdout]

\* The pieces of text between the separators sep.
RECURSIVE split_on(_, _, _, _)
split_on(text, sep, i, piece) ==
    IF i > Len(text)
    THEN <<piece>>
    ELSE IF text[i] = sep
         THEN <<piece>> \o split_on(text, sep, i + 1, <<>>)
         ELSE split_on(text, sep, i + 1, Append(piece, text[i]))

\* /bin/sh -c cmd: the commands of the list cmd, separated by ";", are run one
\* after the other; the first word of each is the program started.
shell_programs(cmd) ==
    LET pieces == split_on(cmd, ";", 1, <<>>)
        words == [k \in 1..Len(pieces) |-> split(pieces[k])]
        nonempty == SelectSeq(words, LAMBDA w : w # <<>>)
    IN  [k \in 1..Len(nonempty) |-> nonempty[k][1]]

\* The programs subprocess.run(cmd, shell=True) starts in TrinityAgent.handle
\* (line 28), none when handle raises or returns at line 27.
TrinityAgent_runs(payload) ==
    LET cmd == IF "command" \in DOMAIN payload THEN payload.command ELSE <<>> IN
    IF split(cmd) = <<>> \/ split(cmd)[1] \notin ALLOW
    THEN <<>>
    ELSE shell_programs(cmd)

agent_handle(name, payload, stdout) ==
    IF name = "Neo" THEN NeoAgent_handle(payload) ELSE TrinityAgent_handle(payload, stdout)

\* res.get("delegate") is truthy
Delegates(res) == "delegate" \in DOMAIN res /\ res.delegate # ""

\* SessionManager.get(session_id)
SessionManager_get(st, session_id) ==
    IF st[session_id] = Absent THEN <<>> ELSE json_loads(st[session_id])

\* {task["agent"]: res}
SessionEntry(agent, res) == [a \in {agent} |-> res]

\* The session ids calls have used, and the one a call with a new id uses.
UsedSessionIds == {dsid[c] : c \in {b \in Calls : dpc[b] # "idle"}}
NextSessionId == IF "demo" \in UsedSessionIds THEN "other" ELSE "demo"

\* handle_message is called (lines 38-40): the Neo entry is pushed and result
\* is None. Calls are numbered in the order they arrive, and session ids in
\* the order they are first used.
HandleMessage(c, session_id, message) ==
    LET task == [agent |-> "Neo", session_id |-> session_id, payload |-> [text |-> message]] IN
    /\ dpc[c] = "idle"
    /\ \A b \in 1..(c - 1) : dpc[b] # "idle"
    /\ session_id \in UsedSessionIds \/ session_id = NextSessionId
    /\ rlist' = TaskQueue_push(rlist, task)
    /\ pushed' = Append(pushed, task)
    /\ dsid' = [dsid EXCEPT ![c] = session_id]
    /\ dmsg' = [dmsg EXCEPT ![c] = message]
    /\ dresult' = [dresult EXCEPT ![c] = Nothing]
    /\ dpc' = [dpc EXCEPT ![c] = "pop"]
    /\ owner' = Append(owner, c)
    /\ UNCHANGED <<popped, lastPop, store, agents, dtask, dres, dhist, dpop,
                   invoked, appended, runVars, ledgerVars, extVars>>

\* Lines 42-47: task = self.queue.pop(); break when there is none;
\* self.agents[task["agent"]] raises KeyError for a name that is not registered
\* (unknown is where the call stands after that); session = self.sessions.get(...)
\* and res = agent.handle(task["payload"], session). Neither agent reads
\* session, so the read is not a step of its own.
DPopWith(c, stdout, unknown) ==
    /\ dpc[c] = "pop"
    /\ LET got == TaskQueue_pop(rlist, 0) IN
         /\ rlist' = got.rest
         /\ IF got.task = Nothing
            THEN /\ dpc' = [dpc EXCEPT ![c] = "returned"]
                 /\ UNCHANGED <<popped, dtask, dres, dpop, invoked>>
            ELSE /\ popped' = Append(popped, got.task[1])
                 /\ dpop' = [dpop EXCEPT ![c] = Len(popped) + 1]
                 /\ IF got.task[1].agent \notin agents
                    THEN /\ dpc' = [dpc EXCEPT ![c] = unknown]
                         /\ UNCHANGED <<dtask, dres, invoked>>
                    ELSE LET task == got.task[1]
                             res == agent_handle(task.agent, task.payload, stdout)
                         IN  /\ invoked' = Append(invoked, Len(popped) + 1)
                             /\ dtask' = [dtask EXCEPT ![c] = got.task]
                             /\ IF IsRaised(res)
                                THEN /\ dpc' = [dpc EXCEPT ![c] = "raised"]
                                     /\ dres' = dres
                                ELSE /\ dpc' = [dpc EXCEPT ![c] = "append"]
                                     /\ dres' = [dres EXCEPT ![c] = Some(res)]
    /\ UNCHANGED <<pushed, lastPop, store, agents, dsid, dmsg, dresult, dhist,
                   appended, owner, runVars, ledgerVars, extVars>>

\* Faulty variant of DPop: an entry for an unknown agent is dropped and the
\* loop goes on.
DPop_SkipsUnknown(c, stdout) == DPopWith(c, stdout, "pop")

DPop(c, stdout) == DPopWith(c, stdout, "raised")

\* SessionManager.append, line 15: history = self.get(session_id)
DAppendGet(c) ==
    /\ dpc[c] = "append"
    /\ dhist' = [dhist EXCEPT ![c] = SessionManager_get(store, dtask[c][1].session_id)]
    /\ dpc' = [dpc EXCEPT ![c] = "set"]
    /\ UNCHANGED <<queueVars, store, agents, dsid, dmsg, dtask, dres, dresult,
                   dpop, invoked, appended, owner, runVars, ledgerVars, extVars>>

\* SessionManager.append, lines 16-17: history.append(message); redis.set(...);
\* then lines 49 and 55-56 of handle_message: a result that does not delegate
\* becomes result.
DAppendSet(c) ==
    /\ dpc[c] = "set"
    /\ LET task == dtask[c][1]
           res == dres[c][1]
           entry == SessionEntry(task.agent, res)
       IN  /\ store' = [store EXCEPT
                          ![task.session_id] = json_dumps(Append(dhist[c], entry))]
           /\ appended' = [appended EXCEPT ![task.session_id] = Append(@, entry)]
           /\ IF task.agent = "Neo" /\ Delegates(res)
              THEN /\ dpc' = [dpc EXCEPT ![c] = "push"]
                   /\ UNCHANGED <<dtask, dres, dresult, dpop>>
              ELSE /\ dresult' = [dresult EXCEPT ![c] = Some(res)]
                   /\ dtask' = [dtask EXCEPT ![c] = Nothing]
                   /\ dres' = [dres EXCEPT ![c] = Nothing]
                   /\ dpop' = [dpop EXCEPT ![c] = 0]
                   /\ dpc' = [dpc EXCEPT ![c] = "pop"]
    /\ dhist' = [dhist EXCEPT ![c] = <<>>]
    /\ UNCHANGED <<queueVars, agents, dsid, dmsg, invoked, owner, runVars, ledgerVars,
                   extVars>>

\* Lines 50-54: the entry for the agent Neo delegates to is pushed.
DDelegate(c) ==
    LET task == [agent |-> dres[c][1].delegate,
                 session_id |-> dtask[c][1].session_id,
                 payload |-> [command |-> dres[c][1].command]]
    IN
    /\ dpc[c] = "push"
    /\ rlist' = TaskQueue_push(rlist, task)
    /\ pushed' = Append(pushed, task)
    /\ dtask' = [dtask EXCEPT ![c] = Nothing]
    /\ dres' = [dres EXCEPT ![c] = Nothing]
    /\ dpop' = [dpop EXCEPT ![c] = 0]
    /\ dpc' = [dpc EXCEPT ![c] = "pop"]
    /\ owner' = Append(owner, owner[dpop[c]])
    /\ UNCHANGED <<popped, lastPop, store, agents, dsid, dmsg, dresult, dhist,
                   invoked, appended, runVars, ledgerVars, extVars>>

NextDispatch ==
    \E c \in Calls :
        \/ \E session_id \in SessionIds, message \in Texts :
                HandleMessage(c, session_id, message)
        \/ \E stdout \in Stdouts : DPop(c, stdout)
        \/ DAppendGet(c)
        \/ DAppendSet(c)
        \/ DDelegate(c)

\* The characters of the commands given to TrinityAgent.handle.
CmdChars == {"l", "s", " ", ";", "x"}

\* The payloads: any command of at most MaxCmdLen characters, or no command.
Payloads ==
    {[command |-> cmd] : cmd \in UNION {[1..n -> CmdChars] : n \in 0..MaxCmdLen}}
        \cup {[text |-> <<>>]}

\* TrinityAgent().handle(payload, session) is called.
TrinityHandle(stdout) ==
    /\ tpc = "call"
    /\ tres' = Some(TrinityAgent_handle(tpayload, stdout))
    /\ texec' = TrinityAgent_runs(tpayload)
    /\ tpc' = "done"
    /\ UNCHANGED <<tpayload, runVars, ledgerVars, queueVars, dispatchVars, orchVars,
                   conversationVars>>

InitTrinityAgent == \E payload \in Payloads : InitOf(Runs, DemoAgents, payload)

NextTrinityAgent == \E stdout \in Stdouts : TrinityHandle(stdout)

SpecTrinityAgent == InitTrinityAgent /\ [][NextTrinityAgent]_vars

\* ---------------------------------------------------------------------------
\* TEST_1/orchestrator.py: start on one thread, approve on another
\* ---------------------------------------------------------------------------

\* tasks.py, OrchestratorState, in the order of the enumeration.
OrchestratorState == <<"IDLE", "PLANNING", "EXECUTING", "REVIEWING", "COMPLETE">>

\* Task(agent, action, requires_approval, result)
Task(agent, action, requires_approval) ==
    [agent |-> agent, action |-> action, requires_approval |-> requires_approval,
     result |-> Nothing]

\* The stub plan of Orchestrator.plan (lines 59-63).
StubPlan ==
    << Task("social_media", "post tweet about the goal", FALSE),
       Task("codex", "generate helper script", FALSE),
       Task("aws", "deploy infrastructure", TRUE) >>

Goal == "Launch marketing campaign"
Decisions == {"approved", "denied"}

\* Registries: the one of __init__, and the ones left after one agent of the
\* plan has been taken out of Orchestrator.agents.
OrchestratorRegistries ==
    {OrchestratorAgents} \cup {OrchestratorAgents \ {a} : a \in {"social_media", "codex", "aws"}}

\* agent.execute(action), or agent.decide(action) for the agent without execute.
agent_result(agent, action) ==
    CASE agent = "social_media" -> <<"[SocialMediaAgent] Executing:", action>>
      [] agent = "aws" -> <<"[AWSAgent] Executing AWS operation:", action>>
      [] agent = "codex" -> <<"[CodexAgent] Generating code for:", action>>
      [] agent = "ceo" -> <<"approved">>

\* start(goal), line 137.
OStart ==
    /\ opc = "idle"
    /\ state' = "PLANNING"
    /\ opc' = "plan"
    /\ UNCHANGED <<oagents, olog, current_step, plan_steps, use_openai, approval_event,
                   approval_result, approve_calls, executed>>
    /\ UNCHANGED <<runVars, ledgerVars, queueVars, dispatchVars, trinityVars, conversationVars>>

\* Faulty variant of OPlan: planning puts the state back to IDLE.
OPlan_BackToIdle(llm) ==
    /\ opc = "plan"
    /\ state' = "IDLE"
    /\ olog' = olog \o <<<<"Planning goal:", Goal>>>>
    /\ plan_steps' = StubPlan
    /\ opc' = "execute"
    /\ UNCHANGED <<oagents, current_step, use_openai, approval_event, approval_result,
                   approve_calls, executed>>
    /\ UNCHANGED <<runVars, ledgerVars, queueVars, dispatchVars, trinityVars, conversationVars>>

\* plan(goal), lines 35-64; llm is whether the OpenAI call returns.
OPlan(llm) ==
    /\ opc = "plan"
    /\ state' = "PLANNING"
    /\ olog' = olog \o <<<<"Planning goal:", Goal>>>>
                    \o (IF ~use_openai THEN <<>>
                        ELSE IF llm THEN <<<<"LLM plan:", "plan_text">>>>
                        ELSE <<<<"OpenAI planning failed:", "exc">>>>)
    /\ plan_steps' = StubPlan
    /\ opc' = "execute"
    /\ UNCHANGED <<oagents, current_step, use_openai, approval_event, approval_result,
                   approve_calls, executed>>
    /\ UNCHANGED <<runVars, ledgerVars, queueVars, dispatchVars, trinityVars, conversationVars>>

\* execute_plan(plan), line 68.
OExecute ==
    /\ opc = "execute"
    /\ state' = "EXECUTING"
    /\ opc' = "for"
    /\ UNCHANGED <<oagents, olog, current_step, plan_steps, use_openai, approval_event,
                   approval_result, approve_calls, executed>>
    /\ UNCHANGED <<runVars, ledgerVars, queueVars, dispatchVars, trinityVars, conversationVars>>

\* Lines 69-78: the next step of the plan is taken, or the loop ends.
OForNext ==
    /\ opc = "for"
    /\ IF current_step < Len(plan_steps)
       THEN LET idx == current_step + 1
                task == plan_steps[idx]
            IN  /\ current_step' = idx
                /\ olog' = olog \o <<<<"Executing step", idx, Len(plan_steps), task.agent, task.action>>>>
                                \o (IF task.requires_approval
                                    THEN <<<<"Awaiting approval for task", idx, task.action>>>>
                                    ELSE <<>>)
                /\ opc' = IF task.requires_approval THEN "clear" ELSE "agent"
       ELSE /\ opc' = "review"
            /\ UNCHANGED <<current_step, olog>>
    /\ UNCHANGED <<state, oagents, plan_steps, use_openai, approval_event, approval_result,
                   approve_calls, executed>>
    /\ UNCHANGED <<runVars, ledgerVars, queueVars, dispatchVars, trinityVars, conversationVars>>

\* Line 80: self._approval_event.clear()
OClear ==
    /\ opc = "clear"
    /\ approval_event' = FALSE
    /\ opc' = "wait"
    /\ UNCHANGED <<state, oagents, olog, current_step, plan_steps, use_openai,
                   approval_result, approve_calls, executed>>
    /\ UNCHANGED <<runVars, ledgerVars, queueVars, dispatchVars, trinityVars, conversationVars>>

\* Lines 81-86: wait() returns once the event is set; a decision other than
\* "approved" skips the step.
OWait ==
    /\ opc = "wait"
    /\ approval_event
    /\ IF approval_result # Some("approved")
       THEN /\ olog' = Append(olog, <<"Task denied", current_step>>)
            /\ opc' = "for"
       ELSE /\ olog' = olog
            /\ opc' = "agent"
    /\ UNCHANGED <<state, oagents, current_step, plan_steps, use_openai, approval_event,
                   approval_result, approve_calls, executed>>
    /\ UNCHANGED <<runVars, ledgerVars, queueVars, dispatchVars, trinityVars, conversationVars>>

\* Lines 88-103: the agent of the step is looked up and invoked; unknown is
\* where the call stands after a step whose agent is not registered.
OAgentWith(unknown) ==
    /\ opc = "agent"
    /\ LET task == plan_steps[current_step] IN
       IF task.agent \notin oagents
       THEN /\ olog' = Append(olog, <<"Unknown agent:", task.agent>>)
            /\ plan_steps' = [plan_steps EXCEPT
                                ![current_step].result = <<"Unknown agent:", task.agent>>]
            /\ executed' = executed
            /\ opc' = unknown
       ELSE /\ olog' = olog
            /\ plan_steps' = [plan_steps EXCEPT
                                ![current_step].result = agent_result(task.agent, task.action)]
            /\ executed' = Append(executed, current_step)
            /\ opc' = "for"
    /\ UNCHANGED <<state, oagents, current_step, use_openai, approval_event,
                   approval_result, approve_calls>>
    /\ UNCHANGED <<runVars, ledgerVars, queueVars, dispatchVars, trinityVars, conversationVars>>

\* Faulty variant of OAgent: a step with an unknown agent ends the plan.
OAgent_AbortsOnUnknown == OAgentWith("aborted")

OAgent == OAgentWith("for")

\* review(goal, plan), lines 106-127; llm is whether the OpenAI call returns.
OReview(llm) ==
    /\ opc = "review"
    /\ state' = "REVIEWING"
    /\ olog' = olog \o <<<<"Reviewing results">>,
                         <<"Review decision:",
                           IF ~use_openai THEN "Goal completed"
                           ELSE IF llm THEN "decision" ELSE "OpenAI review failed">>>>
    /\ opc' = "complete"
    /\ UNCHANGED <<oagents, current_step, plan_steps, use_openai, approval_event,
                   approval_result, approve_calls, executed>>
    /\ UNCHANGED <<runVars, ledgerVars, queueVars, dispatchVars, trinityVars, conversationVars>>

\* start(goal), lines 141-142.
OComplete ==
    /\ opc = "complete"
    /\ state' = "COMPLETE"
    /\ opc' = "done"
    /\ UNCHANGED <<oagents, olog, current_step, plan_steps, use_openai, approval_event,
                   approval_result, approve_calls, executed>>
    /\ UNCHANGED <<runVars, ledgerVars, queueVars, dispatchVars, trinityVars, conversationVars>>

\* approve(decision), lines 130-133, called once from another thread while
\* start is running.
Approve(decision) ==
    /\ opc \notin {"idle", "done"}
    /\ approve_calls = 0
    /\ approve_calls' = approve_calls + 1
    /\ approval_result' = Some(decision)
    /\ approval_event' = TRUE
    /\ UNCHANGED <<state, oagents, olog, current_step, plan_steps, use_openai, opc, executed>>
    /\ UNCHANGED <<runVars, ledgerVars, queueVars, dispatchVars, trinityVars, conversationVars>>

InitOrchestration ==
    \E registry \in OrchestratorRegistries, openai \in BOOLEAN :
        /\ InitBase(Runs, DemoAgents)
        /\ InitTrinity(NoPayload)
        /\ InitOrchestrator(registry, openai)
        /\ InitConversation

NextOrchestration ==
    \/ OStart
    \/ \E llm \in BOOLEAN : OPlan(llm)
    \/ OExecute
    \/ OForNext
    \/ OClear
    \/ OWait
    \/ OAgent
    \/ \E llm \in BOOLEAN : OReview(llm)
    \/ OComplete
    \/ \E decision \in Decisions : Approve(decision)

SpecOrchestration == InitOrchestration /\ [][NextOrchestration]_vars

\* ---------------------------------------------------------------------------
\* multi_agent_conversation.py: send and handoff on one ConversationManager
\* ---------------------------------------------------------------------------

\* Message(role, agent, content, timestamp, response_id, reasoning); the
\* timestamp is left out.
ConversationMessage(role, agent, content, response_id, reasoning) ==
    [role |-> role, agent |-> agent, content |-> content,
     response_id |-> response_id, reasoning |-> reasoning]

\* data.get("id") of the body the server answers a post with: a new id, or
\* None when the body has none.
data_id(has_id) == IF has_id THEN ccalls + 1 ELSE None

\* user_msg of send, lines 82-88.
user_msg(agent) == ConversationMessage("user", agent, "content", None, None)

\* The assistant reply of send, lines 121-128.
reply(agent, response_id) ==
    ConversationMessage("assistant", agent, "output_text", response_id, "reasoning")

\* Faulty variant of Handoff: the recipient takes over the sender's chain.
Handoff_TransfersChain(from_agent, to_agent) ==
    /\ ccalls < MaxConversationCalls
    /\ ccalls' = ccalls + 1
    /\ messages' = Append(messages,
            ConversationMessage("system", to_agent, "context",
                                last_response_ids[from_agent], None))
    /\ last_response_ids' = [last_response_ids EXCEPT ![to_agent] = last_response_ids[from_agent]]
    /\ UNCHANGED <<posted, runVars, ledgerVars, queueVars, dispatchVars, trinityVars, orchVars>>

\* Faulty variant of Send: the reply is put in the history before the message
\* it answers.
Send_ReplyFirst(agent, ok, has_id) ==
    /\ ccalls < MaxConversationCalls
    /\ ccalls' = ccalls + 1
    /\ posted' = Append(posted, [agent |-> agent, at |-> Len(messages) + 1,
                                 previous_response_id |-> last_response_ids[agent]])
    /\ IF ok
       THEN /\ messages' = messages \o <<reply(agent, data_id(has_id)), user_msg(agent)>>
            /\ last_response_ids' =
                  IF data_id(has_id) # None
                  THEN [last_response_ids EXCEPT ![agent] = data_id(has_id)]
                  ELSE last_response_ids
       ELSE /\ messages' = Append(messages, user_msg(agent))
            /\ last_response_ids' = last_response_ids
    /\ UNCHANGED <<runVars, ledgerVars, queueVars, dispatchVars, trinityVars, orchVars>>

\* send(agent, content), lines 82-132. ok: raise_for_status does not raise;
\* has_id: the body has an id. previous_response_id is None in posted when
\* the payload has no such key.
Send(agent, ok, has_id) ==
    /\ ccalls < MaxConversationCalls
    /\ ccalls' = ccalls + 1
    /\ posted' = Append(posted, [agent |-> agent, at |-> Len(messages) + 1,
                                 previous_response_id |-> last_response_ids[agent]])
    /\ IF ok
       THEN /\ messages' = messages \o <<user_msg(agent), reply(agent, data_id(has_id))>>
            /\ last_response_ids' =
                  IF data_id(has_id) # None
                  THEN [last_response_ids EXCEPT ![agent] = data_id(has_id)]
                  ELSE last_response_ids
       ELSE /\ messages' = Append(messages, user_msg(agent))
            /\ last_response_ids' = last_response_ids
    /\ UNCHANGED <<runVars, ledgerVars, queueVars, dispatchVars, trinityVars, orchVars>>

\* handoff(from_agent, to_agent, context), lines 137-153.
Handoff(from_agent, to_agent) ==
    /\ ccalls < MaxConversationCalls
    /\ ccalls' = ccalls + 1
    /\ messages' = Append(messages,
            ConversationMessage("system", to_agent, "context",
                                last_response_ids[from_agent], None))
    /\ UNCHANGED <<last_response_ids, posted, runVars, ledgerVars, queueVars,
                   dispatchVars, trinityVars, orchVars>>

NextConversation ==
    \/ \E agent \in ConversationAgents, ok, has_id \in BOOLEAN : Send(agent, ok, has_id)
    \/ \E from_agent, to_agent \in ConversationAgents : Handoff(from_agent, to_agent)

SpecConversation == Init /\ [][NextConversation]_vars

\* The chat endpoint serves each request on a thread of its own: calls of
\* handle_message on the one Morpheus interleave between their Redis commands.
SpecDispatch == Init /\ [][NextDispatch]_vars

\* The same calls on a Morpheus whose registry may lack an agent.
SpecRegistry == InitRegistry /\ [][NextDispatch]_vars

\* ---------------------------------------------------------------- auditing
\* The position in the log of the message with the given id (0: absent).
Pos(id) ==
    IF \E i \in 1..Len(log) : log[i].response_id = id
    THEN CHOOSE i \in 1..Len(log) : log[i].response_id = id
    ELSE 0

\* The messages call r recorded, in the order it recorded them.
RunMsgs(r) == [k \in 1..Len(issued[r]) |-> log[Pos(issued[r][k])]]

Status(m) == IF "status" \in DOMAIN m.payload THEN m.payload.status ELSE "none"

IsRoot(m) == m.prev_response_id = None
IsIntake(m) == m.agent = "Neo" /\ m.step_id[1] = "neo.intake"
IsPlan(m) == m.agent = "Morpheus" /\ m.step_id[1] = "morpheus.plan"
IsCloseout(m) == m.agent = "Neo" /\ m.step_id[1] = "neo.closeout"
IsTaskMsg(m) == m.agent = "Trinity"
TaskOf(m) == m.step_id[2]

\* The positions in the run ms of the messages of task i.
TaskPositions(ms, i) ==
    {k \in 1..Len(ms) : IsTaskMsg(ms[k]) /\ TaskOf(ms[k]) = i}

Started(r) == pc[r] # "idle"
Escalated(r) ==
    \E i \in 1..Len(log) :
        /\ Status(log[i]) = "escalated"
        /\ \E k \in 1..Len(issued[r]) : issued[r][k] = log[i].response_id

\* Task i exhausts its attempts under the fault set f, and is reached.
Exhausts(f, i) == \A a \in Attempts : <<i, a>> \in f
Reached(f, i) == \A j \in 1..(i - 1) : ~Exhausts(f, j)
NoEscalation(f) == \A i \in TaskIndex : ~Exhausts(f, i)

\* ------------------------------------------------------------------ claims

\* C1: once a call of run has returned, whatever tasks failed, the messages
\* it recorded hold exactly one message with prev_response_id null, the
\* intake root, and exactly one closeout, which is the last message it
\* recorded (and the last of the log until another call starts); the log
\* as a whole holds one root per call started and one closeout per call
\* returned.
C1_OneRootOneCloseoutLast ==
    /\ \A r \in Runs : pc[r] = "done" =>
        LET ms == RunMsgs(r)
            n == Len(ms)
        IN  /\ n > 0
            /\ {k \in 1..n : IsRoot(ms[k])} = {1}
            /\ IsIntake(ms[1])
            /\ {k \in 1..n : IsCloseout(ms[k])} = {n}
            /\ (\A q \in Runs : q > r => ~Started(q)) => log[Len(log)] = ms[n]
    /\ Cardinality({i \in 1..Len(log) : IsRoot(log[i])})
         = Cardinality({r \in Runs : Started(r)})
    /\ Cardinality({i \in 1..Len(log) : IsCloseout(log[i])})
         = Cardinality({r \in Runs : pc[r] = "done"})

\* A call has returned after its second task escalated.
C1_Witness ==
    \E r \in Runs :
        /\ pc[r] = "done"
        /\ Escalated(r)
        /\ index[r] = 2

\* The root of the causal chain of the message at position i: prev_response_id
\* is followed until it is null (0: the chain leaves the log or does not go back).
RECURSIVE Root(_)
Root(i) ==
    IF log[i].prev_response_id = None THEN i
    ELSE LET j == Pos(log[i].prev_response_id)
         IN  IF j = 0 \/ j >= i THEN 0 ELSE Root(j)

\* C2: in every state of the log, each message but the intake roots has a
\* non-null prev_response_id that is the response_id of a message recorded
\* earlier in the same log, and following prev_response_id from any message
\* of a call ends at the one root of that call, its intake message.
C2_ChainReachesRoot ==
    /\ \A i \in 1..Len(log) :
         IF IsIntake(log[i])
         THEN log[i].prev_response_id = None
         ELSE /\ log[i].prev_response_id # None
              /\ \E j \in 1..(i - 1) : log[j].response_id = log[i].prev_response_id
    /\ \A r \in Runs : \A k \in 1..Len(issued[r]) :
         /\ Pos(issued[r][k]) # 0
         /\ Root(Pos(issued[r][k])) = Pos(intake_msg[r])

\* A call is about to attempt its second task, the first having failed once
\* and then succeeded: four messages chain back to the intake.
C2_Witness ==
    \E r \in Runs :
        /\ pc[r] = "while"
        /\ index[r] = 2
        /\ Len(issued[r]) = 4

\* What a message is, for comparing a run with what it should hold.
Kind(m) ==
    IF IsTaskMsg(m)
    THEN <<"task", Status(m), m.payload.task_id,
           IF "attempt" \in DOMAIN m.payload THEN m.payload.attempt ELSE 0>>
    ELSE <<m.step_id[1], Status(m), "", 0>>

\* The kinds a run without escalation holds for tasks i..Len(Plan).
RECURSIVE ExpectedTasks(_, _)
ExpectedTasks(f, i) ==
    IF i > Len(Plan) THEN <<>>
    ELSE (IF <<i, 1>> \in f
          THEN << <<"task", "failed", Plan[i].task_id, 1>>,
                  <<"task", "succeeded", Plan[i].task_id, 2>> >>
          ELSE << <<"task", "succeeded", Plan[i].task_id, 1>> >>)
         \o ExpectedTasks(f, i + 1)

Expected(f) ==
    << <<"neo.intake", "none", "", 0>>, <<"morpheus.plan", "none", "", 0>> >>
    \o ExpectedTasks(f, 1)
    \o << <<"neo.closeout", "complete", "", 0>> >>

\* C3: a call in which no task escalates returns with a closeout of status
\* complete, having recorded exactly intake, plan, per task in plan order
\* its failed attempt (if any) then its succeeded message, and the closeout,
\* each message's prev_response_id being the id of the one recorded just
\* before; when only the second of the two tasks fails once these are six.
C3_CompleteRunIsLinearChain ==
    \A r \in Runs : (pc[r] = "done" /\ NoEscalation(faults[r])) =>
        LET ms == RunMsgs(r)
        IN  /\ [k \in 1..Len(ms) |-> Kind(ms[k])] = Expected(faults[r])
            /\ Status(ms[Len(ms)]) = "complete"
            /\ \A k \in 2..Len(ms) : ms[k].prev_response_id = ms[k - 1].response_id
            /\ (<<1, 1>> \notin faults[r] /\ <<2, 1>> \in faults[r]) => Len(ms) = 6

\* The repository's own run: only task-2 fails, on its first attempt.
C3_Witness ==
    \E r \in Runs :
        /\ pc[r] = "done"
        /\ faults[r] = DemoFaults
        /\ Len(issued[r]) = 6

\* C4: for a task that fails on both of its MAX_ATTEMPTS = 2 attempts the
\* call holds exactly three messages of that task, one after the other:
\* failed (attempt 1), failed (attempt 2), escalated with reason "retries
\* exhausted"; and the closeout of the call has status failed.
C4_ExhaustedTaskFailedFailedEscalated ==
    \A r \in Runs : \A i \in TaskIndex :
        (pc[r] = "done" /\ Reached(faults[r], i) /\ Exhausts(faults[r], i)) =>
            LET ms == RunMsgs(r)
                n == Len(ms)
                ps == TaskPositions(ms, i)
            IN  /\ Cardinality(ps) = 3
                /\ \E k \in ps :
                     /\ ps = {k, k + 1, k + 2}
                     /\ Kind(ms[k]) = <<"task", "failed", Plan[i].task_id, 1>>
                     /\ Kind(ms[k + 1]) = <<"task", "failed", Plan[i].task_id, 2>>
                     /\ Kind(ms[k + 2]) = <<"task", "escalated", Plan[i].task_id, 0>>
                     /\ ms[k + 2].payload.reason = "retries exhausted"
                     /\ ms[k + 2].step_id = step_escalate(i)
                /\ IsCloseout(ms[n])
                /\ Status(ms[n]) = "failed"

\* A call has returned whose first task failed on both attempts.
C4_Witness ==
    \E r \in Runs :
        /\ pc[r] = "done"
        /\ Exhausts(faults[r], 1)
        /\ Len(issued[r]) = 6

\* C5: the action of a task is attempted at most MAX_ATTEMPTS = 2 times.
\* After a failed attempt below the limit the call stands before, or has
\* just made, another attempt of the same task (and the log holds that
\* attempt's message right after the failed one once it is recorded);
\* after the failed attempt at the limit the call stands before the
\* escalation and attempts nothing more;
\* an escalated message has exactly MAX_ATTEMPTS failed messages before it.
C5_AtMostMaxAttempts ==
    \A r \in Runs :
        LET ms == RunMsgs(r)
            n == Len(ms)
        IN  /\ attempt[r] <= MAX_ATTEMPTS
            /\ \A i \in TaskIndex :
                 LET ps == TaskPositions(ms, i)
                     tried == {k \in ps : Status(ms[k]) \in {"failed", "succeeded"}}
                     failed == {k \in ps : Status(ms[k]) = "failed"}
                 IN  /\ Cardinality(tried) <= MAX_ATTEMPTS
                     /\ \A k \in tried : ms[k].payload.attempt \in Attempts
                     /\ \A k \in ps : Status(ms[k]) = "escalated" =>
                          /\ Cardinality(failed) = MAX_ATTEMPTS
                          /\ \A j \in failed : j < k
                     /\ \A k \in failed : (ms[k].payload.attempt < MAX_ATTEMPTS /\ k < n) =>
                          /\ k + 1 \in tried
                          /\ ms[k + 1].payload.attempt = ms[k].payload.attempt + 1
                     /\ \A k \in failed : (ms[k].payload.attempt >= MAX_ATTEMPTS /\ k < n) =>
                          /\ k + 1 \in ps
                          /\ Status(ms[k + 1]) = "escalated"
            /\ (n > 0 /\ Status(ms[n]) = "failed" /\ IsTaskMsg(ms[n])) =>
                 /\ index[r] = TaskOf(ms[n])
                 /\ IF ms[n].payload.attempt < MAX_ATTEMPTS
                    THEN \/ pc[r] = "while" /\ attempt[r] = ms[n].payload.attempt
                         \/ pc[r] = "except" /\ attempt[r] = ms[n].payload.attempt + 1
                    ELSE pc[r] = "escalate" /\ attempt[r] = ms[n].payload.attempt

\* The first attempt of the second task has failed and its failed message is
\* recorded: the call stands before the second attempt.
C5_Witness ==
    \E r \in Runs :
        /\ pc[r] = "while"
        /\ index[r] = 2
        /\ attempt[r] = 1

\* C6: after an escalation the closeout of status failed has
\* prev_response_id equal to the id of the task message recorded last in
\* that call (the last succeeded or failed one), so that the chain from the
\* closeout passes through the task messages before the plan.
C6_FailedCloseoutFollowsLastTask ==
    \A r \in Runs : (pc[r] = "done" /\ Escalated(r)) =>
        LET ms == RunMsgs(r)
            n == Len(ms)
            tasks == {k \in 1..n : IsTaskMsg(ms[k])}
            tried == {k \in tasks : Status(ms[k]) \in {"failed", "succeeded"}}
            lastOf(S) == CHOOSE k \in S : \A j \in S : j <= k
        IN  /\ Status(ms[n]) = "failed"
            /\ ms[n].prev_response_id \in
                 {ms[lastOf(tasks)].response_id, ms[lastOf(tried)].response_id}

\* The ids of the messages call r recorded.
Owned(r) == {issued[r][k] : k \in 1..Len(issued[r])}

\* The task of the escalated message of call r.
EscalatedTask(r) ==
    CHOOSE i \in TaskIndex :
        \E j \in 1..Len(log) :
            /\ log[j].response_id \in Owned(r)
            /\ Status(log[j]) = "escalated"
            /\ TaskOf(log[j]) = i

NoLaterTask(r) ==
    \A j \in 1..Len(log) :
        (log[j].response_id \in Owned(r) /\ IsTaskMsg(log[j])) =>
            TaskOf(log[j]) <= EscalatedTask(r)

\* C7: escalation is fail-fast. Once a task of a call has escalated, the log
\* holds no message of a later task of that call, no step moves the call to
\* another task or attempt, the only message the call still records is not
\* a task message, and every message already in the log stays as it is.
C7_FailFast ==
    [][\A r \in Runs :
          /\ Escalated(r)' => NoLaterTask(r)'
          /\ Escalated(r) =>
               /\ index'[r] = index[r]
               /\ attempt'[r] = attempt[r]
               /\ pc'[r] \in {"raised", "done"}
               /\ Len(log') >= Len(log)
               /\ SubSeq(log', 1, Len(log)) = log
               /\ \A j \in (Len(log) + 1)..Len(log') :
                    log'[j].response_id \in Owned(r)' => ~IsTaskMsg(log'[j])]_vars

\* A call has returned after its first task escalated: the second task has
\* no message.
C7_Witness ==
    \E r \in Runs :
        /\ pc[r] = "done"
        /\ Escalated(r)
        /\ index[r] = 1
        /\ TaskPositions(RunMsgs(r), 2) = {}

\* C8: the messages of one task (failed, succeeded, escalated) all have
\* parent_id equal to the id of the plan message, stand next to each other
\* in the call's record, each after the first having prev_response_id equal
\* to the id of the one before, which no other message of the log has; a
\* task that failed once and then succeeded has exactly two messages, failed
\* then succeeded, the second following the first.
C8_TaskMessagesContiguous ==
    \A r \in Runs : \A i \in TaskIndex :
        LET ms == RunMsgs(r)
            ps == TaskPositions(ms, i)
        IN  /\ \A k \in ps : ms[k].parent_id = plan_msg[r]
            /\ \A k1 \in ps : \A k2 \in ps : \A k \in k1..k2 : k \in ps
            /\ \A k \in ps : (k - 1) \in ps =>
                 /\ ms[k].prev_response_id = ms[k - 1].response_id
                 /\ \A j \in 1..Len(log) :
                      log[j].prev_response_id = ms[k - 1].response_id => log[j] = ms[k]
            /\ (\E k \in ps : Status(ms[k]) = "succeeded" /\ ms[k].payload.attempt = 2) =>
                 \E k \in ps :
                    /\ ps = {k, k + 1}
                    /\ Kind(ms[k]) = <<"task", "failed", Plan[i].task_id, 1>>
                    /\ Kind(ms[k + 1]) = <<"task", "succeeded", Plan[i].task_id, 2>>
                    /\ ms[k + 1].prev_response_id = ms[k].response_id

\* The second task has failed once and then succeeded, after the first task
\* did the same.
C8_Witness ==
    \E r \in Runs :
        /\ pc[r] = "for"
        /\ index[r] = 2
        /\ Len(issued[r]) = 6

\* C9: a failure is recorded before it is raised. When RuntimeError leaves
\* execute, the last two messages of the call are the failed message of the
\* last attempt and the escalated message of that task; and whenever the
\* call stands before an attempt or before the escalation, each attempt
\* made so far on the task has its failed message recorded.
C9_RecordedBeforeRaised ==
    \A r \in Runs :
        LET ms == RunMsgs(r)
            n == Len(ms)
        IN  /\ pc[r] = "raised" =>
                 /\ n >= 2
                 /\ Kind(ms[n - 1]) =
                      <<"task", "failed", Plan[index[r]].task_id, MAX_ATTEMPTS>>
                 /\ Kind(ms[n]) = <<"task", "escalated", Plan[index[r]].task_id, 0>>
                 /\ exc[r] = <<"Task", Plan[index[r]].task_id, "escalation required">>
            /\ pc[r] \in {"while", "escalate"} =>
                 /\ n >= attempt[r]
                 /\ \A a \in 1..attempt[r] :
                      Kind(ms[n - attempt[r] + a]) =
                        <<"task", "failed", Plan[index[r]].task_id, a>>

\* RuntimeError is on its way from execute to run.
C9_Witness ==
    \E r \in Runs :
        /\ pc[r] = "raised"
        /\ index[r] = 2

\* C10: in every state of the log, a message with a non-null
\* prev_response_id has a timestamp at or after the timestamp of the
\* message it refers to.
C10_TimestampsNonDecreasing ==
    \A i \in 1..Len(log) :
        log[i].prev_response_id # None =>
            /\ Pos(log[i].prev_response_id) # 0
            /\ log[i].timestamp >= log[Pos(log[i].prev_response_id)].timestamp

\* A message was recorded in a later second than the message it follows, and
\* the clock has moved on within that second.
C10_Witness ==
    /\ \E i \in 1..Len(log) :
         /\ log[i].prev_response_id # None
         /\ log[i].timestamp > log[Pos(log[i].prev_response_id)].timestamp
    /\ clock % TicksPerSecond # 0
    /\ \E r \in Runs : pc[r] = "done"

\* C11: record(message) with an id already present in the log fails and leaves
\* the log unchanged, so a recorded message is never replaced by a later record.
C11_DuplicateIdRejected ==
    [][\A message \in ClientMessages :
          (Record(message) /\ Pos(message.response_id) # 0) => log' = log]_vars

\* C12: record(message) whose prev_response_id or parent_id is not None and is
\* not the id of a recorded message fails, so no log holds a dangling
\* prev_response_id or parent_id.
C12_NoDanglingReference ==
    \A i \in 1..Len(log) :
        /\ log[i].prev_response_id # None => Pos(log[i].prev_response_id) # 0
        /\ log[i].parent_id # None => Pos(log[i].parent_id) # 0

\* The position in the written log of the member whose key is id, 0 if none.
ExportPos(out, id) ==
    IF \E i \in 1..Len(out) : out[i][1] = id
    THEN CHOOSE i \in 1..Len(out) : out[i][1] = id
    ELSE 0

\* C13: the log written by save_log after any records made by calls of run
\* lists the messages in the order they were recorded, and for every message
\* the messages named by its prev_response_id and by its parent_id come
\* earlier in it.
C13_ExportInCausalOrder ==
    LET out == save_log(log) IN
    /\ Len(out) = Len(log)
    /\ \A r \in Runs : \A k \in 1..Len(issued[r]) :
          /\ ExportPos(out, issued[r][k]) # 0
          /\ out[ExportPos(out, issued[r][k])][2].response_id = issued[r][k]
          /\ \A j \in 1..(k - 1) :
                ExportPos(out, issued[r][j]) < ExportPos(out, issued[r][k])
    /\ \A i \in 1..Len(out) :
          /\ out[i][2].prev_response_id # None =>
                /\ ExportPos(out, out[i][2].prev_response_id) # 0
                /\ ExportPos(out, out[i][2].prev_response_id) < i
          /\ out[i][2].parent_id # None =>
                /\ ExportPos(out, out[i][2].parent_id) # 0
                /\ ExportPos(out, out[i][2].parent_id) < i

\* A call of run has returned after an escalation: its log holds messages
\* whose parent_id differs from their prev_response_id.
C13_Witness ==
    /\ \E r \in Runs : pc[r] = "done" /\ Len(issued[r]) >= 5
    /\ \E i \in 1..Len(log) :
          /\ log[i].parent_id # None
          /\ log[i].parent_id # log[i].prev_response_id

\* C14: save_log called twice with no record in between writes the same
\* output, and save_log changes no message and no order in the log.
C14_ExportIdempotentReadOnly ==
    /\ [](\A i \in 1..Len(exported) :
            /\ exported[i] = exported[1]
            /\ exported[i] = save_log(log))
    /\ [][SaveLog => log' = log]_vars

\* The log holds two messages and has been written twice since the last record.
C14_Witness ==
    /\ Len(log) = 2
    /\ Len(exported) >= 2

\* The tasks still queued, oldest first.
Queued == [k \in 1..Len(rlist) |-> json_loads(rlist[Len(rlist) + 1 - k])]

\* C15: the queue is FIFO. After any interleaving of push and pop, with or
\* without a timeout, the tasks returned are the tasks pushed, in the order
\* pushed, and the tasks not yet returned are queued in that order; a pop
\* that found the queue empty returned None (and left it empty).
C15_Fifo ==
    /\ [](/\ popped \o Queued = pushed
          /\ lastPop # Nothing => (popped # <<>> /\ lastPop[1] = popped[Len(popped)]))
    /\ [][\A timeout \in Timeouts :
            QPop(timeout) =>
                IF rlist = <<>>
                THEN lastPop' = Nothing /\ rlist' = <<>> /\ popped' = popped
                ELSE lastPop' = Some(Queued[1]) /\ Len(rlist') = Len(rlist) - 1]_vars

\* Two different tasks were pushed and returned in the order they were pushed,
\* and a later pop found the queue empty and returned None.
C15_Witness ==
    /\ Len(pushed) = 2
    /\ Len(popped) = 2
    /\ popped[1] # popped[2]
    /\ rlist = <<>>
    /\ lastPop = Nothing

\* The calls of handle_message that are running.
Running == {c \in Calls : dpc[c] \in {"pop", "append", "set", "push"}}

\* The positions in popped of the entries agent.handle was called for.
InvokedSet == {invoked[k] : k \in 1..Len(invoked)}

\* C16: a call of handle_message that has returned returns the last result
\* that did not delegate: it is not None, it is not a delegation instruction,
\* and when Neo delegates for the call's message it is Trinity's result.
C16_ReturnsFinalResult ==
    \A c \in Calls :
        dpc[c] = "returned" =>
            /\ dresult[c] # Nothing
            /\ ~Delegates(dresult[c][1])
            /\ Delegates(NeoAgent_handle([text |-> dmsg[c]])) =>
                    "status" \in DOMAIN dresult[c][1]

\* C17: when the popped entry names an agent that is not registered the call
\* raises at once: no agent is invoked for the entry, nothing is appended to a
\* session, no message is recorded, the entry is not pushed again, and the
\* call never returns a result.
C17_UnknownAgentAborts ==
    /\ [](\A c \in Calls :
            dpc[c] = "raised" =>
                /\ popped[dpop[c]].agent \notin agents
                /\ dpop[c] \notin InvokedSet)
    /\ [](Cardinality({k \in 1..Len(pushed) : pushed[k].agent # "Neo"})
            <= Cardinality({k \in InvokedSet : popped[k].agent = "Neo"}))
    /\ [][\A c \in Calls :
            (/\ \E stdout \in Stdouts : DPop(c, stdout)
             /\ rlist # <<>>
             /\ Queued[1].agent \notin agents)
            => /\ dpc'[c] = "raised"
               /\ invoked' = invoked
               /\ store' = store
               /\ appended' = appended
               /\ log' = log
               /\ pushed' = pushed
               /\ Len(rlist') = Len(rlist) - 1]_vars
    /\ [][\A c \in Calls :
            dpc[c] = "raised" => (dpc'[c] = "raised" /\ dresult'[c] = dresult[c])]_vars

\* A call has raised on the Trinity entry, every call has ended and the queue
\* is empty: the entry is gone, and the session holds Neo's output only.
C17_Witness ==
    /\ \E c \in Calls : dpc[c] = "raised" /\ popped[dpop[c]].agent = "Trinity"
    /\ \A c \in Calls : dpc[c] \in {"raised", "returned"}
    /\ rlist = <<>>

\* The entries appended to any session that hold the output of agent a.
AppendedBy(a) ==
    {<<sid, k>> \in SessionIds \X (1..(2 * MaxCalls)) :
        k <= Len(appended[sid]) /\ DOMAIN appended[sid][k] = {a}}

\* C18: every entry handled leaves one entry in its session and one message
\* in the log with the agent as its origin.
C18_EachInvocationAudited ==
    \A a \in DemoAgents :
        /\ Cardinality({i \in 1..Len(log) : log[i].agent = a}) = Cardinality(AppendedBy(a))
        /\ Cardinality(AppendedBy(a))
              <= Cardinality({k \in InvokedSet : popped[k].agent = a})

\* C19: every entry pushed is popped once and handed to one agent.handle call:
\* the entries popped and those still queued are the entries pushed, each
\* popped entry has been invoked once, and when no call is running nothing is
\* left in the queue.
C19_ConsumedExactlyOnce ==
    /\ popped \o Queued = pushed
    /\ InvokedSet = 1..Len(popped)
    /\ Cardinality(InvokedSet) = Len(invoked)
    /\ Running = {} => (rlist = <<>> /\ Len(invoked) = Len(pushed))

\* Every call has delegated and returned, and the second call arrived before
\* the first had pushed its Trinity entry.
C19_Witness ==
    /\ \A c \in Calls : dpc[c] = "returned"
    /\ Len(pushed) = 2 * MaxCalls
    /\ pushed[2].agent = "Neo"
    /\ Len(invoked) = Len(pushed)

\* C20: get(session_id) returns every entry appended to that id, in the order
\* the appends took effect.
C20_SessionKeepsEveryAppend ==
    \A sid \in SessionIds : SessionManager_get(store, sid) = appended[sid]

\* The call that recorded the message with this id.
OwnerOf(id) == CHOOSE r \in DOMAIN issued : id \in Owned(r)

\* C21: when two calls of run interleave on one log their chains stay apart:
\* prev_response_id and parent_id of every message name a message of the same
\* call, and each call's messages taken alone have one root, one closeout once
\* the call has returned (its last message), and timestamps that never go back.
C21_ChainsStaySeparate ==
    /\ \A i \in 1..Len(log) :
          /\ \E r \in TwoRuns : log[i].response_id \in Owned(r)
          /\ log[i].prev_response_id # None =>
                log[i].prev_response_id \in Owned(OwnerOf(log[i].response_id))
          /\ log[i].parent_id # None =>
                log[i].parent_id \in Owned(OwnerOf(log[i].response_id))
    /\ Owned(1) \cap Owned(2) = {}
    /\ \A r \in TwoRuns :
          LET ms == RunMsgs(r) IN
          /\ Cardinality({k \in 1..Len(ms) : IsRoot(ms[k])}) = (IF Len(ms) = 0 THEN 0 ELSE 1)
          /\ Cardinality({k \in 1..Len(ms) : IsCloseout(ms[k])}) = (IF pc[r] = "done" THEN 1 ELSE 0)
          /\ pc[r] = "done" => IsCloseout(ms[Len(ms)])
          /\ \A k \in 2..Len(ms) : ms[k].timestamp >= ms[k - 1].timestamp

\* Both calls have returned, one of them after an escalation, and their
\* messages alternate in the log.
C21_Witness ==
    /\ \A r \in TwoRuns : pc[r] = "done"
    /\ \E r \in TwoRuns : Escalated(r)
    /\ \E i, j, k \in 1..Len(log) :
          /\ i < j /\ j < k
          /\ log[i].response_id \in Owned(1)
          /\ log[j].response_id \in Owned(2)
          /\ log[k].response_id \in Owned(1)
    /\ log[Len(log)].timestamp > log[1].timestamp

\* C22: whatever the payload, TrinityAgent.handle does not raise, starts no
\* program outside ALLOW, and starts nothing when it returns status error.
C22_AllowListIsHardBoundary ==
    tpc = "done" /\ tpayload # NoPayload =>
        /\ ~IsRaised(tres[1])
        /\ \A k \in 1..Len(texec) : texec[k] \in ALLOW
        /\ tres[1].status = "error" => texec = <<>>

\* The place of a state in OrchestratorState.
Rank(st) == CHOOSE k \in 1..Len(OrchestratorState) : OrchestratorState[k] = st

\* The steps whose agent was invoked.
ExecutedSet == {executed[k] : k \in 1..Len(executed)}

\* C23: during a call of start the state only moves forward through
\* OrchestratorState, one state at a time, and a call that has returned
\* leaves the state COMPLETE.
C23_LifecycleMovesForward ==
    /\ [][Rank(state') \in {Rank(state), Rank(state) + 1}]_vars
    /\ [](opc = "done" => state = "COMPLETE")
    /\ [](opc = "idle" <=> state = "IDLE")

\* A call of start has returned with the steps it was allowed to run executed.
C23_Witness ==
    /\ opc = "done"
    /\ state = "COMPLETE"
    /\ executed = <<1, 2, 3>>

\* C28: no wake-up is lost: once approve has been called, a call of start that
\* waits for the approval finds the event set; and the agent of a step whose
\* decision is not "approved" is not invoked.
C28_NoLostWakeup ==
    /\ (approve_calls > 0 /\ opc = "wait") => approval_event
    /\ \A idx \in ExecutedSet :
          plan_steps[idx].requires_approval => approval_result = Some("approved")

\* C30: a step whose agent is not registered does not end the plan: no agent
\* is invoked for it, its result is the unknown-agent error, the loop goes on
\* to the next step, later steps run in order, and a call of start that
\* returns leaves the state COMPLETE. (A step that waits for an approval and
\* is denied is skipped before its agent is looked up.)
C30_UnknownAgentSkipsStep ==
    /\ [][(OAgent /\ plan_steps[current_step].agent \notin oagents) =>
            /\ executed' = executed
            /\ plan_steps'[current_step].result =
                  <<"Unknown agent:", plan_steps[current_step].agent>>
            /\ opc' = "for"]_vars
    /\ [](\A k \in 2..Len(executed) : executed[k - 1] < executed[k])
    /\ [](opc = "done" =>
            /\ state = "COMPLETE"
            /\ \A idx \in 1..Len(plan_steps) :
                  LET released == \/ ~plan_steps[idx].requires_approval
                                  \/ approval_result = Some("approved")
                  IN  IF plan_steps[idx].agent \notin oagents
                      THEN /\ idx \notin ExecutedSet
                           /\ released => plan_steps[idx].result =
                                              <<"Unknown agent:", plan_steps[idx].agent>>
                      ELSE released => idx \in ExecutedSet)

\* start has returned; the agent of step 2 was unknown, and the steps before
\* and after it were executed.
C30_Witness ==
    /\ opc = "done"
    /\ plan_steps[2].agent \notin oagents
    /\ plan_steps[2].result = <<"Unknown agent:", plan_steps[2].agent>>
    /\ executed = <<1, 3>>

\* The attempt on which task i succeeds under the fault set f.
SucceedsOn(f, i) == CHOOSE a \in Attempts : <<i, a>> \notin f /\ \A b \in 1..(a - 1) : <<i, b>> \in f

\* C24: the closeout of a call in which every task succeeded has status
\* complete and results holding one succeeded result per task of the plan, in
\* plan order, each with the attempt on which the task succeeded, and no
\* failed attempt.
C24_CloseoutResults ==
    \A r \in Runs :
        (pc[r] = "done" /\ NoEscalation(faults[r])) =>
            LET ms == RunMsgs(r)
                payload == ms[Len(ms)].payload
            IN  /\ IsCloseout(ms[Len(ms)])
                /\ payload.status = "complete"
                /\ Len(payload.results) = Len(Plan)
                /\ \A i \in TaskIndex :
                      /\ payload.results[i].task_id = Plan[i].task_id
                      /\ payload.results[i].status = "succeeded"
                      /\ payload.results[i].attempt = SucceedsOn(faults[r], i)
                      /\ \E k \in TaskPositions(ms, i) :
                            /\ Status(ms[k]) = "succeeded"
                            /\ ms[k].payload = payload.results[i]

\* A call has returned with every task succeeded, one on its first attempt
\* and one on its second.
C24_Witness ==
    \E r \in Runs :
        /\ pc[r] = "done"
        /\ NoEscalation(faults[r])
        /\ \E i, j \in TaskIndex :
              /\ SucceedsOn(faults[r], i) = 1
              /\ SucceedsOn(faults[r], j) = 2
        /\ Len(log[Len(log)].payload.results) = Len(Plan)

\* C27: the messages recorded for a task are zero or more failed followed by
\* one succeeded or escalated: nothing is recorded for the task after its
\* succeeded or escalated message, and a task that was started and left has
\* one.
C27_OneTerminalStatus ==
    \A r \in Runs : \A i \in TaskIndex :
        LET ms == RunMsgs(r)
            ps == TaskPositions(ms, i)
            Terminal(k) == Status(ms[k]) \in {"succeeded", "escalated"}
        IN  /\ \A k \in ps :
                  /\ Status(ms[k]) \in {"failed", "succeeded", "escalated"}
                  /\ Terminal(k) => \A j \in ps : j <= k
                  /\ (\E j \in ps : j > k) => Status(ms[k]) = "failed"
            /\ Cardinality({k \in ps : Terminal(k)}) <= 1
            /\ (ps # {} /\ (index[r] > i \/ pc[r] = "done")) =>
                  Cardinality({k \in ps : Terminal(k)}) = 1

\* A call has returned in which one task failed once and then succeeded and
\* another failed twice and was escalated.
C27_Witness ==
    \E r \in Runs :
        /\ pc[r] = "done"
        /\ \E i \in TaskIndex :
              LET ps == TaskPositions(RunMsgs(r), i) IN
              /\ Cardinality(ps) = 2
              /\ \E k \in ps : Status(RunMsgs(r)[k]) = "succeeded"
        /\ \E i \in TaskIndex :
              LET ps == TaskPositions(RunMsgs(r), i) IN
              /\ Cardinality(ps) = 3
              /\ \E k \in ps : Status(RunMsgs(r)[k]) = "escalated"


\* The positions among the first n messages of the assistant replies to agent a.
RepliesTo(a, n) ==
    {i \in 1..n : messages[i].role = "assistant" /\ messages[i].agent = a}

\* The greatest element of a non-empty set of positions.
Latest(S) == CHOOSE i \in S : \A j \in S : j <= i

\* The response_id of the most recent of the first n messages that is an
\* assistant reply to agent a; None when there is no such reply.
LastReplyId(a, n) ==
    IF RepliesTo(a, n) = {} THEN None ELSE messages[Latest(RepliesTo(a, n))].response_id

\* The same, among the replies that carry a response_id.
LastReplyIdGiven(a, n) ==
    LET S == {i \in RepliesTo(a, n) : messages[i].response_id # None}
    IN  IF S = {} THEN None ELSE messages[Latest(S)].response_id

\* C25 as stated: last_response_ids[a] is the response_id of the most recent
\* assistant reply to agent a, and each send for agent a transmitted, as
\* previous_response_id, the response_id of the most recent reply to a before
\* it (no previous_response_id when a had no reply yet), whatever other agents
\* sent and whatever was handed off in between.
C25_ChainFollowsLastReply ==
    /\ \A a \in ConversationAgents : last_response_ids[a] = LastReplyId(a, Len(messages))
    /\ \A k \in 1..Len(posted) :
            posted[k].previous_response_id = LastReplyId(posted[k].agent, posted[k].at - 1)

\* C25 amended: last_response_ids[a] is the response_id of the most recent
\* assistant reply to agent a that carried a response_id, and each send for
\* agent a transmitted, as previous_response_id, the response_id of the most
\* recent such reply before it (no previous_response_id when a had none yet),
\* whatever other agents sent and whatever was handed off in between.
C25_ChainFollowsLastReplyWithId ==
    /\ \A a \in ConversationAgents : last_response_ids[a] = LastReplyIdGiven(a, Len(messages))
    /\ \A k \in 1..Len(posted) :
            posted[k].previous_response_id = LastReplyIdGiven(posted[k].agent, posted[k].at - 1)

\* C25 witness: an agent's send transmitted its previous reply's id although a
\* message of another agent had entered the history in between.
C25_Witness ==
    \E k \in 1..Len(posted) :
        /\ posted[k].previous_response_id # None
        /\ \E i, j \in 1..(posted[k].at - 1) :
                /\ i < j
                /\ messages[i].role = "assistant"
                /\ messages[i].agent = posted[k].agent
                /\ messages[i].response_id = posted[k].previous_response_id
                /\ messages[j].agent # posted[k].agent
        /\ Len(messages) > posted[k].at
        /\ messages[posted[k].at + 1].role = "assistant"


\* C26: the history is append-only and ordered: no step changes or removes an
\* earlier message; a successful send appends exactly two messages, the
\* sender's message and then the assistant's reply; a handoff appends exactly
\* one system message, addressed to to_agent and carrying from_agent's last
\* response id, and leaves last_response_ids unchanged.
C26_HistoryAppendOnly ==
    [][/\ Len(messages') >= Len(messages)
       /\ SubSeq(messages', 1, Len(messages)) = messages
       /\ \A agent \in ConversationAgents, has_id \in BOOLEAN :
            Send(agent, TRUE, has_id) =>
                /\ Len(messages') = Len(messages) + 2
                /\ messages'[Len(messages) + 1].role = "user"
                /\ messages'[Len(messages) + 1].agent = agent
                /\ messages'[Len(messages) + 2].role = "assistant"
                /\ messages'[Len(messages) + 2].agent = agent
       /\ \A from_agent, to_agent \in ConversationAgents :
            Handoff(from_agent, to_agent) =>
                /\ Len(messages') = Len(messages) + 1
                /\ messages'[Len(messages')].role = "system"
                /\ messages'[Len(messages')].agent = to_agent
                /\ messages'[Len(messages')].response_id = last_response_ids[from_agent]
                /\ last_response_ids' = last_response_ids
      ]_vars

\* C26 witness: a send's two messages are followed in the history by the
\* handoff of that reply's id to the other agent.
C26_Witness ==
    \E i \in 1..(Len(messages) - 2) :
        /\ messages[i].role = "user"
        /\ messages[i + 1].role = "assistant"
        /\ messages[i + 1].agent = messages[i].agent
        /\ messages[i + 1].response_id # None
        /\ messages[i + 2].role = "system"
        /\ messages[i + 2].agent # messages[i].agent
        /\ messages[i + 2].response_id = messages[i + 1].response_id
        /\ last_response_ids[messages[i + 2].agent] = None


\* C29: every call of handle_message handles only the entries that descend
\* from the entry it pushed, so the result it returns was computed for its own
\* request, and a call that has returned did not return None, also when
\* several calls run at the same time.
C29_OwnEntriesOnly ==
    \A c \in Calls :
        /\ dpop[c] # 0 => owner[dpop[c]] = c
        /\ dpc[c] = "returned" => dresult[c] # Nothing

====
